---- MODULE Spec2Model ----
(***************************************************************************)
(* Model of ote_sdk/usecases/exportable_code/streamer/streamer.py:         *)
(* the four frame sources' constructors, get_streamer's trial-construction *)
(* of a source for a locator, and ThreadedStreamer's producer process,     *)
(* bounded multiprocessing.Queue and consumer-side generator.              *)
(***************************************************************************)
EXTENDS Integers, Sequences, FiniteSets, TLC

\* ------------------------------------------------------------- bounds
\* Most frames a source yields in one run (an endless source is cut here).
MaxFrames == 3
\* Largest buffer_size a ThreadedStreamer is constructed with.
MaxBuf == 2
\* Most entries of a directory listing.
MaxNames == 2
\* Most entries of the directory a DirStreamer iterates.
MaxEntries == 3
\* Most iterations started on one source instance.
MaxIters == 2

\* ------------------------------------------------------------- MediaType
IMAGE == 1
DIR == 2
VIDEO == 3
CAMERA == 4
MediaType == {IMAGE, DIR, VIDEO, CAMERA}

VARIABLES
  \* get_streamer
  input_path,   \* what the locator addresses (the facts the constructors read)
  loop,         \* get_streamer's loop argument
  threaded,     \* get_streamer's threaded argument
  spc,          \* position in get_streamer: "readers", "camera", "done"
  reader_idx,   \* index into the tuple of readers of the for loop
  errors,       \* the errors dict: messages per exception class
  attempts,     \* constructions attempted so far, each with how it ended
  outcome,      \* "none", "return", "exit" (sys.exit) or "ValueError" (uncaught)
  result,       \* the streamer returned
  stderr,       \* lines printed to sys.stderr
  exit_status,  \* argument of sys.exit, -1 while not called
  \* ThreadedStreamer
  streamer,     \* the wrapped source: kind, whether it ever ends, frames it has
  buffer_size,  \* self.buffer_size
  py37,         \* sys.version_info >= (3, 7)
  cpc,          \* position of the consumer-side generator
  ppc,          \* position of the producer process
  exitcode,     \* process.exitcode: "None", "0", "-15" (SIGTERM), "-9" (SIGKILL)
  frame,        \* the frame the producer holds between next() and put(), 0 if none
  pending,      \* frames put, not yet written to the pipe by the queue's feeder
  pipe,         \* frames in the pipe, readable by the consumer
  produced,     \* frames the inner source has yielded in the producer
  received,     \* frames yielded to the consumer
  sigterm,      \* terminate() was called on the live process
  sigkill,      \* kill() was called on the live process
  cap_parent,   \* the capture handle opened at construction is open (consumer side)
  cap_child,    \* the producer process's copy of that handle is open
  cancelled,    \* the consumer closed the generator (GeneratorExit was raised)
  \* a source instance iterated directly
  media_type,   \* self.media_type of the instance
  self_loop,    \* self.loop
  n_frames,     \* frames the video file holds / reads the camera device answers
  cap_pos,      \* position of the capture: index of the frame read() gives next
  cap_open,     \* the capture (self.cap / self.stream) is open
  released,     \* CameraStreamer called self.stream.release()
  listing,      \* os.listdir(self.dir), in the order the system gave it
  decodable,    \* the entries cv2.imread decodes
  names,        \* self.names
  file_id,      \* self.file_id
  read_idx,     \* index of the entry DirStreamer read last, -1 before any read
  image,        \* self.image
  ipc,          \* position of the generator: none, start, run, seek, yield, ended
  resumed,      \* the generator is running after a yield (not from its start)
  out,          \* frames yielded in the current iteration (the first MaxOut)
  last,         \* the frame yielded last
  iterations,   \* iterations started on the instance
  prior_exhausted \* an earlier iteration of the instance ran to its end

selvars == <<input_path, loop, threaded, spc, reader_idx, errors, attempts,
             outcome, result, stderr, exit_status>>
thrvars == <<streamer, buffer_size, py37, cpc, ppc, exitcode, frame, pending,
             pipe, produced, received, sigterm, sigkill, cap_parent, cap_child,
             cancelled>>
srcvars == <<media_type, self_loop, n_frames, cap_pos, cap_open, released,
             listing, decodable, names, file_id, read_idx, image, ipc, resumed,
             out, last, iterations, prior_exhausted>>
vars == <<input_path, loop, threaded, spc, reader_idx, errors, attempts,
          outcome, result, stderr, exit_status,
          streamer, buffer_size, py37, cpc, ppc, exitcode, frame, pending,
          pipe, produced, received, sigterm, sigkill, cap_parent, cap_child,
          cancelled,
          media_type, self_loop, n_frames, cap_pos, cap_open, released,
          listing, decodable, names, file_id, read_idx, image, ipc, resumed,
          out, last, iterations, prior_exhausted>>

\* ------------------------------------------------------------- helpers
BoolSeqs(n) == UNION {[1..k -> BOOLEAN] : k \in 0..n}

IsPrefix(s, t) == /\ Len(s) <= Len(t)
                  /\ \A i \in 1..Len(s) : s[i] = t[i]

\* ------------------------------------------------------------- locators
\* A locator is modelled by what the calls the constructors make answer for it:
\*   isfile  os.path.isfile(input_path)
\*   imread  cv2.imread(input_path) is not None
\*   isdir   os.path.isdir(input_path)
\*   names   sorted(os.listdir(input_path)), each entry by whether it decodes
\*   video   cv2.VideoCapture().open(input_path)
\*   isint   int(input_path) parses
\*   device  the camera device of that index exists and can be opened
\* A path is a file or a directory or neither; only a file decodes as an image
\* or opens as a video, only a directory lists entries, and only an integer
\* names a camera device.
Locators ==
  {l \in [isfile : BOOLEAN, imread : BOOLEAN, isdir : BOOLEAN,
          names : BoolSeqs(MaxNames), video : BOOLEAN, isint : BOOLEAN,
          device : BOOLEAN] :
     /\ ~(l.isfile /\ l.isdir)
     /\ l.imread => l.isfile
     /\ l.video => l.isfile
     /\ l.names # <<>> => l.isdir
     /\ l.device => l.isint}

\* ------------------------------------------------------------- constructors
Raised(cls, msg) == [ok |-> FALSE, error |-> cls, message |-> msg]
Constructed == [ok |-> TRUE, error |-> "", message |-> ""]

ImageStreamer_init(l) ==
  IF ~l.isfile THEN Raised("InvalidInput", "Can't find the image")
  ELSE IF ~l.imread THEN Raised("OpenError", "Can't open the image")
  ELSE Constructed

DirStreamer_init(l) ==
  IF ~l.isdir THEN Raised("InvalidInput", "Can't find the dir")
  ELSE IF l.names = <<>> THEN Raised("OpenError", "The dir is empty")
  ELSE IF \E i \in 1..Len(l.names) : l.names[i] THEN Constructed
  ELSE Raised("OpenError", "Can't read the first image")

VideoStreamer_init(l) ==
  IF ~l.video THEN Raised("InvalidInput", "Can't open the video")
  ELSE Constructed

\* cv2.VideoCapture(index) raises nothing when the device cannot be opened.
CameraStreamer_init(l) == Constructed

reader(kind, l) ==
  CASE kind = IMAGE -> ImageStreamer_init(l)
    [] kind = DIR -> DirStreamer_init(l)
    [] kind = VIDEO -> VideoStreamer_init(l)
    [] kind = CAMERA -> CameraStreamer_init(l)

\* ------------------------------------------------------------- get_streamer
\* The tuple the for loop of get_streamer runs over.
Readers_dir_first == <<DIR, IMAGE, VIDEO>>
Readers == <<IMAGE, DIR, VIDEO>>

\* A streamer object: a source of its own media type, or a ThreadedStreamer
\* (which has no media type of its own) around such a source.
NoStreamer == [wrapped |-> FALSE, media_type |-> 0, inner |-> 0, buffer_size |-> 0]
Source(kind) == [wrapped |-> FALSE, media_type |-> kind, inner |-> 0, buffer_size |-> 0]

\* ThreadedStreamer(streamer): buffer_size defaults to 2.
ThreadedStreamer_init(s) ==
  [wrapped |-> TRUE, media_type |-> 0, inner |-> s.media_type, buffer_size |-> 2]

\* get_type: a source reports its own media type, a ThreadedStreamer
\* self.streamer.get_type().
get_type(s) == IF s.wrapped THEN s.inner ELSE s.media_type

\* streamer = reader(...); if threaded: streamer = ThreadedStreamer(streamer)
Wrap(kind, thr) == IF thr THEN ThreadedStreamer_init(Source(kind)) ELSE Source(kind)

Attempt(kind, r) == [kind |-> kind, raised |-> r.error]

SelectStart ==
  /\ input_path \in Locators
  /\ loop \in BOOLEAN
  /\ threaded \in BOOLEAN
  /\ spc = "readers"
  /\ reader_idx = 1
  /\ errors = [InvalidInput |-> <<>>, OpenError |-> <<>>]
  /\ attempts = <<>>
  /\ outcome = "none"
  /\ result = NoStreamer
  /\ stderr = <<>>
  /\ exit_status = -1

\* One pass of the body of "for reader in (ImageStreamer, DirStreamer, VideoStreamer)".
TryReader ==
  /\ spc = "readers"
  /\ LET kind == Readers[reader_idx]
         r == reader(kind, input_path)
     IN /\ attempts' = Append(attempts, Attempt(kind, r))
        /\ IF r.ok
           THEN /\ result' = Wrap(kind, threaded)
                /\ outcome' = "return"
                /\ spc' = "done"
                /\ UNCHANGED <<errors, reader_idx>>
           ELSE /\ errors' = [errors EXCEPT ![r.error] = Append(@, r.message)]
                /\ IF reader_idx < Len(Readers)
                   THEN /\ reader_idx' = reader_idx + 1
                        /\ spc' = "readers"
                   ELSE /\ reader_idx' = reader_idx
                        /\ spc' = "camera"
                /\ UNCHANGED <<result, outcome>>
  /\ UNCHANGED <<input_path, loop, threaded, stderr, exit_status>>
  /\ UNCHANGED thrvars
  /\ UNCHANGED srcvars

\* The rest of get_streamer: CameraStreamer(int(input_path)), and the report.
\* int() of a locator that is no integer raises ValueError, which the except
\* clause does not name: it leaves get_streamer with nothing printed.
TryCamera ==
  /\ spc = "camera"
  /\ spc' = "done"
  /\ IF ~input_path.isint
     THEN /\ outcome' = "ValueError"
          /\ UNCHANGED <<attempts, result, errors, stderr, exit_status>>
     ELSE LET r == reader(CAMERA, input_path)
              errs == [errors EXCEPT ![r.error] = Append(@, r.message)]
          IN /\ attempts' = Append(attempts, Attempt(CAMERA, r))
             /\ IF r.ok
                THEN /\ result' = Wrap(CAMERA, threaded)
                     /\ outcome' = "return"
                     /\ UNCHANGED <<errors, stderr, exit_status>>
                ELSE /\ errors' = errs
                     /\ stderr' = IF errs.OpenError = <<>>
                                  THEN errs.InvalidInput
                                  ELSE errs.OpenError
                     /\ exit_status' = 1
                     /\ outcome' = "exit"
                     /\ UNCHANGED result
  /\ UNCHANGED <<input_path, loop, threaded, reader_idx>>
  /\ UNCHANGED thrvars
  /\ UNCHANGED srcvars

\* ------------------------------------------------------------- ThreadedStreamer
\* The sources a ThreadedStreamer is constructed around: the kind, whether its
\* iteration ever ends (a looping source or a live camera does not), the frames
\* an ending one yields, and whether it holds an open capture handle.
Sources ==
  {s \in [kind : MediaType, endless : BOOLEAN, frames : 0..MaxFrames,
          capture : BOOLEAN] :
     /\ s.endless => s.frames = 0
     /\ (s.kind = IMAGE /\ ~s.endless) => s.frames = 1
     /\ (s.kind = DIR /\ ~s.endless) => s.frames >= 1
     /\ s.kind \in {IMAGE, DIR} => ~s.capture
     /\ s.kind = VIDEO => s.capture
     /\ (s.kind = CAMERA /\ (s.endless \/ s.frames > 0)) => s.capture}

\* process.is_alive()
is_alive == ppc \in {"next", "put", "exit"}

\* multiprocessing.Queue(maxsize=self.buffer_size)
maxsize_off_by_one(size) == size + 1
maxsize(size) == size

\* buffer.put(frame) blocks while the queue holds maxsize frames.
full == Len(pending) + Len(pipe) >= maxsize(buffer_size)

\* The queue is first in, first out: put appends, get takes the head.
put_front(q, f) == <<f>> \o q
put(q, f) == Append(q, f)

\* while process.is_alive() or not buffer.empty()
loop_condition_alive_only(alive, empty) == alive
loop_condition_forever(alive, empty) == TRUE
loop_condition(alive, empty) == alive \/ ~empty

\* The inner source has another frame to yield.
has_next == IF streamer.endless THEN TRUE ELSE Len(produced) < streamer.frames

ThreadedStart ==
  /\ streamer \in Sources
  /\ buffer_size \in 1..MaxBuf
  /\ py37 \in BOOLEAN
  /\ cpc = "new"
  /\ ppc = "unstarted"
  /\ exitcode = "None"
  /\ frame = 0
  /\ pending = <<>>
  /\ pipe = <<>>
  /\ produced = <<>>
  /\ received = <<>>
  /\ sigterm = FALSE
  /\ sigkill = FALSE
  /\ cap_parent = streamer.capture
  /\ cap_child = FALSE
  /\ cancelled = FALSE

\* __iter__ up to the try: the queue is created and the process started; the
\* process works on its own copy of the source, capture handle included.
IterStart ==
  /\ cpc = "new"
  /\ cpc' = "while"
  /\ ppc' = "next"
  /\ cap_child' = cap_parent
  /\ UNCHANGED <<streamer, buffer_size, py37, exitcode, frame, pending, pipe,
                 produced, received, sigterm, sigkill, cap_parent, cancelled>>
  /\ UNCHANGED selvars
  /\ UNCHANGED srcvars

\* _process_run: "for frame in streamer" asks the source for its next frame.
\* A camera source releases its capture when its iteration ends.
ProducerNext ==
  /\ ppc = "next"
  /\ streamer.endless => Len(produced) < MaxFrames
  /\ IF has_next
     THEN /\ frame' = Len(produced) + 1
          /\ produced' = Append(produced, Len(produced) + 1)
          /\ ppc' = "put"
          /\ UNCHANGED cap_child
     ELSE /\ ppc' = "exit"
          /\ cap_child' = IF streamer.kind = CAMERA THEN FALSE ELSE cap_child
          /\ UNCHANGED <<frame, produced>>
  /\ UNCHANGED <<streamer, buffer_size, py37, cpc, exitcode, pending, pipe,
                 received, sigterm, sigkill, cap_parent, cancelled>>
  /\ UNCHANGED selvars
  /\ UNCHANGED srcvars

\* _process_run: buffer.put(frame), once the queue has room.
ProducerPut ==
  /\ ppc = "put"
  /\ ~full
  /\ pending' = put(pending, frame)
  /\ frame' = 0
  /\ ppc' = "next"
  /\ UNCHANGED <<streamer, buffer_size, py37, cpc, exitcode, pipe, produced,
                 received, sigterm, sigkill, cap_parent, cap_child, cancelled>>
  /\ UNCHANGED selvars
  /\ UNCHANGED srcvars

\* The queue's feeder thread, in the producer process, writes the oldest frame
\* put to the pipe.
Feeder ==
  /\ is_alive
  /\ pending # <<>>
  /\ pipe' = put(pipe, Head(pending))
  /\ pending' = Tail(pending)
  /\ UNCHANGED <<streamer, buffer_size, py37, cpc, ppc, exitcode, frame,
                 produced, received, sigterm, sigkill, cap_parent, cap_child,
                 cancelled>>
  /\ UNCHANGED selvars
  /\ UNCHANGED srcvars

\* _process_run returned: the process exits once the feeder has written
\* everything put, and the system closes what the process held open.
ProcessExit ==
  /\ ppc = "exit"
  /\ pending = <<>>
  /\ ppc' = "dead"
  /\ exitcode' = "0"
  /\ cap_child' = FALSE
  /\ UNCHANGED <<streamer, buffer_size, py37, cpc, frame, pending, pipe,
                 produced, received, sigterm, sigkill, cap_parent, cancelled>>
  /\ UNCHANGED selvars
  /\ UNCHANGED srcvars

\* A signal sent by terminate() or kill() ends the process wherever it is,
\* blocked in put included; what its feeder had not written is lost.
ProcessDie ==
  /\ is_alive
  /\ sigterm \/ sigkill
  /\ ppc' = "dead"
  /\ exitcode' \in {c \in {"-15", "-9"} : IF c = "-15" THEN sigterm ELSE sigkill}
  /\ frame' = 0
  /\ pending' = <<>>
  /\ cap_child' = FALSE
  /\ UNCHANGED <<streamer, buffer_size, py37, cpc, pipe, produced, received,
                 sigterm, sigkill, cap_parent, cancelled>>
  /\ UNCHANGED selvars
  /\ UNCHANGED srcvars

\* The while condition. is_alive() is read before empty(); once it is false
\* nothing writes to the pipe any more, so reading both at once loses nothing.
ConsumerLoop ==
  /\ cpc = "while"
  /\ cpc' = IF loop_condition(is_alive, pipe = <<>>) THEN "get" ELSE "finally"
  /\ UNCHANGED <<streamer, buffer_size, py37, ppc, exitcode, frame, pending,
                 pipe, produced, received, sigterm, sigkill, cap_parent,
                 cap_child, cancelled>>
  /\ UNCHANGED selvars
  /\ UNCHANGED srcvars

\* yield buffer.get(timeout=0.1); queue.Empty after the timeout is passed over.
ConsumerGet ==
  /\ cpc = "get"
  /\ IF pipe # <<>>
     THEN /\ received' = Append(received, Head(pipe))
          /\ pipe' = Tail(pipe)
          /\ cpc' = "yield"
     ELSE /\ cpc' = "while"
          /\ UNCHANGED <<received, pipe>>
  /\ UNCHANGED <<streamer, buffer_size, py37, ppc, exitcode, frame, pending,
                 produced, sigterm, sigkill, cap_parent, cap_child, cancelled>>
  /\ UNCHANGED selvars
  /\ UNCHANGED srcvars

\* The consumer asks for the next frame: the generator resumes after the yield.
ConsumerNext ==
  /\ cpc = "yield"
  /\ cpc' = "while"
  /\ UNCHANGED <<streamer, buffer_size, py37, ppc, exitcode, frame, pending,
                 pipe, produced, received, sigterm, sigkill, cap_parent,
                 cap_child, cancelled>>
  /\ UNCHANGED selvars
  /\ UNCHANGED srcvars

\* except GeneratorExit: process.terminate()
on_generator_exit_pass == sigterm
on_generator_exit == sigterm \/ is_alive

\* The consumer closes the generator where it is suspended, at the yield.
ConsumerClose ==
  /\ cpc = "yield"
  /\ cancelled' = TRUE
  /\ sigterm' = on_generator_exit
  /\ cpc' = "finally"
  /\ UNCHANGED <<streamer, buffer_size, py37, ppc, exitcode, frame, pending,
                 pipe, produced, received, sigkill, cap_parent, cap_child>>
  /\ UNCHANGED selvars
  /\ UNCHANGED srcvars

\* finally: process.join(timeout=0.1) returns when the process has exited or
\* the timeout has passed; then kill() if the version has it and there is no
\* exit code.
ConsumerFinally ==
  /\ cpc = "finally"
  /\ sigkill' = (sigkill \/ (py37 /\ exitcode = "None"))
  /\ cpc' = "done"
  /\ UNCHANGED <<streamer, buffer_size, py37, ppc, exitcode, frame, pending,
                 pipe, produced, received, sigterm, cap_parent, cap_child,
                 cancelled>>
  /\ UNCHANGED selvars
  /\ UNCHANGED srcvars

\* ------------------------------------------------------------- source iterators
\* Frames recorded per iteration: enough for two rounds of a looping source.
MaxOut == 2 * MaxFrames + 1

\* A frame: what was decoded (a video or camera frame index, a directory entry,
\* 0 for the image file) and the channel order of the buffer.
NoFrame == [id |-> -1, order |-> "none"]

\* cv2.imread / VideoCapture.read give the decoded frame in BGR order.
Decoded(id) == [id |-> id, order |-> "BGR"]

\* cv2.cvtColor(image, cv2.COLOR_BGR2RGB) swaps the first and third channel.
cvtColor(f) == [f EXCEPT !.order = IF @ = "BGR" THEN "RGB" ELSE "BGR"]

\* sorted(os.listdir(self.dir)); entries are numbered in lexicographic order.
unsorted(s) == s
sorted(s) == SortSeq(s, LAMBDA a, b : a < b)

Range(s) == {s[i] : i \in 1..Len(s)}

\* The listings os.listdir can give: distinct entries, in any order.
Listings ==
  {s \in UNION {[1..k -> 1..MaxEntries] : k \in 0..MaxEntries} :
     \A i, j \in 1..Len(s) : i # j => s[i] # s[j]}

\* What DirStreamer.__init__ reads: the sorted listing, each entry by whether
\* it decodes.
DirLocator(ns, dec) ==
  [isdir |-> TRUE, names |-> [i \in 1..Len(ns) |-> ns[i] \in dec]]

\* A successfully constructed source instance, not yet iterated.
SourceStart ==
  /\ media_type \in MediaType
  /\ self_loop \in (IF media_type = CAMERA THEN {FALSE} ELSE BOOLEAN)
  /\ n_frames \in (IF media_type \in {VIDEO, CAMERA} THEN 0..MaxFrames ELSE {0})
  /\ listing \in (IF media_type = DIR THEN Listings ELSE {<<>>})
  /\ decodable \in SUBSET Range(listing)
  /\ names = IF media_type = DIR THEN sorted(listing) ELSE <<>>
  /\ media_type = DIR => DirStreamer_init(DirLocator(names, decodable)).ok
  /\ file_id = 0
  /\ read_idx = -1
  /\ image = IF media_type = IMAGE THEN cvtColor(Decoded(0)) ELSE NoFrame
  /\ cap_pos = 0
  /\ cap_open \in (IF media_type = VIDEO THEN {TRUE}
                   ELSE IF media_type = CAMERA
                   THEN (IF n_frames = 0 THEN BOOLEAN ELSE {TRUE})
                   ELSE {FALSE})
  /\ released = FALSE
  /\ ipc = "none"
  /\ resumed = FALSE
  /\ out = <<>>
  /\ last = NoFrame
  /\ iterations = 0
  /\ prior_exhausted = FALSE

\* yield f: the generator is suspended with f handed to the consumer.
Yield(f) ==
  /\ ipc' = "yield"
  /\ out' = IF Len(out) < MaxOut THEN Append(out, f) ELSE out
  /\ last' = f

\* iter(streamer): a new generator over the same instance; a generator the
\* consumer still had is abandoned where it was suspended.
NewIter ==
  /\ ipc \in {"none", "start", "yield", "ended"}
  /\ iterations < MaxIters
  /\ iterations' = iterations + 1
  /\ prior_exhausted' = (prior_exhausted \/ ipc = "ended")
  /\ ipc' = "start"
  /\ resumed' = FALSE
  /\ out' = <<>>
  /\ UNCHANGED <<media_type, self_loop, n_frames, cap_pos, cap_open, released,
                 listing, decodable, names, file_id, read_idx, image, last>>
  /\ UNCHANGED selvars
  /\ UNCHANGED thrvars

\* No __iter__ resets what the instance holds: a generator starts with
\* self.file_id (and the capture's position) as the constructor or the
\* iteration before left it.
file_id_reset(f) == 0
file_id_at_start(f) == f

\* next(generator): the body runs from its start or from the yield it was
\* suspended at.
Request ==
  /\ ipc \in {"start", "yield"}
  /\ resumed' = (ipc = "yield")
  /\ ipc' = "run"
  /\ file_id' = IF ipc = "start" THEN file_id_at_start(file_id) ELSE file_id
  /\ UNCHANGED <<media_type, self_loop, n_frames, cap_pos, cap_open, released,
                 listing, decodable, names, read_idx, image, out, last,
                 iterations, prior_exhausted>>
  /\ UNCHANGED selvars
  /\ UNCHANGED thrvars

\* status of self.cap.read() / self.stream.read(): a frame is left to read.
read_status_skip_last == cap_open /\ cap_pos < n_frames - 1
read_status == cap_open /\ cap_pos < n_frames

\* VideoStreamer.__iter__: where a failed read leads.
video_after_eof_always_break(lp) == "ended"
video_after_eof(lp) == IF lp THEN "seek" ELSE "ended"

\* VideoStreamer.__iter__: one pass of "while True" up to the yield, the break
\* or the seek.
VideoRead ==
  /\ media_type = VIDEO
  /\ ipc = "run"
  /\ IF read_status
     THEN /\ Yield(cvtColor(Decoded(cap_pos)))
          /\ cap_pos' = cap_pos + 1
     ELSE /\ ipc' = video_after_eof(self_loop)
          /\ UNCHANGED <<cap_pos, out, last>>
  /\ UNCHANGED <<media_type, self_loop, n_frames, cap_open, released, listing,
                 decodable, names, file_id, read_idx, image, resumed,
                 iterations, prior_exhausted>>
  /\ UNCHANGED selvars
  /\ UNCHANGED thrvars

\* VideoStreamer.__iter__: self.cap.set(cv2.CAP_PROP_POS_FRAMES, 0)
VideoSeek ==
  /\ media_type = VIDEO
  /\ ipc = "seek"
  /\ cap_pos' = 0
  /\ ipc' = "run"
  /\ UNCHANGED <<media_type, self_loop, n_frames, cap_open, released, listing,
                 decodable, names, file_id, read_idx, image, resumed, out, last,
                 iterations, prior_exhausted>>
  /\ UNCHANGED selvars
  /\ UNCHANGED thrvars

\* CameraStreamer.__iter__: after the loop, self.stream.release().
camera_no_release == released
camera_release == TRUE

\* CameraStreamer.__iter__: one pass of "while True" up to the yield, or the
\* break and the release after the loop.
CameraRead ==
  /\ media_type = CAMERA
  /\ ipc = "run"
  /\ IF read_status
     THEN /\ Yield(cvtColor(Decoded(cap_pos)))
          /\ cap_pos' = cap_pos + 1
          /\ UNCHANGED <<cap_open, released>>
     ELSE /\ released' = camera_release
          /\ cap_open' = (cap_open /\ ~camera_release)
          /\ ipc' = "ended"
          /\ UNCHANGED <<cap_pos, out, last>>
  /\ UNCHANGED <<media_type, self_loop, n_frames, listing, decodable, names,
                 file_id, read_idx, image, resumed, iterations, prior_exhausted>>
  /\ UNCHANGED selvars
  /\ UNCHANGED thrvars

\* ImageStreamer.__iter__: what is yielded.
image_converted_again == cvtColor(image)
image_yielded == image

\* ImageStreamer.__iter__: without loop one yield and then the end of the
\* body; with loop a yield on every pass.
ImageNext ==
  /\ media_type = IMAGE
  /\ ipc = "run"
  /\ IF ~self_loop /\ resumed
     THEN /\ ipc' = "ended"
          /\ UNCHANGED <<out, last>>
     ELSE Yield(image_yielded)
  /\ UNCHANGED <<media_type, self_loop, n_frames, cap_pos, cap_open, released,
                 listing, decodable, names, file_id, read_idx, image, resumed,
                 iterations, prior_exhausted>>
  /\ UNCHANGED selvars
  /\ UNCHANGED thrvars

\* DirStreamer.__iter__: while self.file_id < len(self.names)
dir_while_off_by_one == file_id <= Len(names)
dir_while == file_id < Len(names)

\* DirStreamer.__iter__: self.file_id after the read.
file_id_never_wraps == file_id + 1
file_id_next ==
  IF file_id < Len(names) - 1 THEN file_id + 1
  ELSE IF ~self_loop THEN file_id + 1 ELSE 0

\* DirStreamer.__iter__: one pass of the while loop: read the entry, move
\* file_id, yield the frame if the entry decoded.
DirNext ==
  /\ media_type = DIR
  /\ ipc = "run"
  /\ IF dir_while
     THEN /\ read_idx' = file_id
          /\ file_id' = file_id_next
          /\ IF file_id < Len(names) /\ names[file_id + 1] \in decodable
             THEN Yield(cvtColor(Decoded(names[file_id + 1])))
             ELSE UNCHANGED <<ipc, out, last>>
     ELSE /\ ipc' = "ended"
          /\ UNCHANGED <<file_id, read_idx, out, last>>
  /\ UNCHANGED <<media_type, self_loop, n_frames, cap_pos, cap_open, released,
                 listing, decodable, names, image, resumed, iterations,
                 prior_exhausted>>
  /\ UNCHANGED selvars
  /\ UNCHANGED thrvars

\* ------------------------------------------------------------- specifications
SelectIdle ==
  /\ input_path = [isfile |-> FALSE, imread |-> FALSE, isdir |-> FALSE,
                   names |-> <<>>, video |-> FALSE, isint |-> FALSE,
                   device |-> FALSE]
  /\ loop = FALSE
  /\ threaded = TRUE
  /\ spc = "done"
  /\ reader_idx = 1
  /\ errors = [InvalidInput |-> <<>>, OpenError |-> <<>>]
  /\ attempts = <<>>
  /\ outcome = "none"
  /\ result = NoStreamer
  /\ stderr = <<>>
  /\ exit_status = -1

ThreadedIdle ==
  /\ streamer = [kind |-> IMAGE, endless |-> FALSE, frames |-> 1,
                 capture |-> FALSE]
  /\ buffer_size = 2
  /\ py37 = TRUE
  /\ cpc = "new"
  /\ ppc = "unstarted"
  /\ exitcode = "None"
  /\ frame = 0
  /\ pending = <<>>
  /\ pipe = <<>>
  /\ produced = <<>>
  /\ received = <<>>
  /\ sigterm = FALSE
  /\ sigkill = FALSE
  /\ cap_parent = FALSE
  /\ cap_child = FALSE
  /\ cancelled = FALSE

SourceIdle ==
  /\ media_type = IMAGE
  /\ self_loop = FALSE
  /\ n_frames = 0
  /\ cap_pos = 0
  /\ cap_open = FALSE
  /\ released = FALSE
  /\ listing = <<>>
  /\ decodable = {}
  /\ names = <<>>
  /\ file_id = 0
  /\ read_idx = -1
  /\ image = NoFrame
  /\ ipc = "none"
  /\ resumed = FALSE
  /\ out = <<>>
  /\ last = NoFrame
  /\ iterations = 0
  /\ prior_exhausted = FALSE

\* get_streamer called with a locator.
NextSelect == TryReader \/ TryCamera
InitSelect == SelectStart /\ ThreadedIdle /\ SourceIdle
SpecSelect == InitSelect /\ [][NextSelect]_vars

\* One iteration of a ThreadedStreamer: consumer, producer process, feeder.
NextThreaded ==
  \/ IterStart
  \/ ProducerNext
  \/ ProducerPut
  \/ Feeder
  \/ ProcessExit
  \/ ProcessDie
  \/ ConsumerLoop
  \/ ConsumerGet
  \/ ConsumerNext
  \/ ConsumerClose
  \/ ConsumerFinally
InitThreaded == ThreadedStart /\ SelectIdle /\ SourceIdle
SpecThreaded == InitThreaded /\ [][NextThreaded]_vars

\* The same under the scheduling the system gives: every process and thread
\* that can take a step takes one, and a signal sent is delivered. Only the
\* consumer's choice to close the generator is left free.
FairThreaded ==
  /\ SpecThreaded
  /\ WF_vars(IterStart)
  /\ WF_vars(ProducerNext)
  /\ WF_vars(ProducerPut)
  /\ WF_vars(Feeder)
  /\ WF_vars(ProcessExit)
  /\ WF_vars(ProcessDie)
  /\ WF_vars(ConsumerLoop)
  /\ WF_vars(ConsumerGet)
  /\ WF_vars(ConsumerNext)
  /\ WF_vars(ConsumerFinally)

\* Fair scheduling of everything that runs: the producer process, its feeder,
\* the delivery of signals, and the generator's own code once it is entered.
\* When the consumer asks for a frame (the first or the next), and whether it
\* closes the generator, is left to the consumer: it may take as long as it
\* likes, or never ask again.
FairProducer ==
  /\ SpecThreaded
  /\ WF_vars(ProducerNext)
  /\ WF_vars(ProducerPut)
  /\ WF_vars(Feeder)
  /\ WF_vars(ProcessExit)
  /\ WF_vars(ProcessDie)
  /\ WF_vars(ConsumerLoop)
  /\ WF_vars(ConsumerGet)
  /\ WF_vars(ConsumerFinally)

\* A source instance iterated directly by its consumer, any number of times.
NextSource ==
  \/ NewIter
  \/ Request
  \/ VideoRead
  \/ VideoSeek
  \/ CameraRead
  \/ ImageNext
  \/ DirNext
InitSource == SourceStart /\ SelectIdle /\ ThreadedIdle
SpecSource == InitSource /\ [][NextSource]_vars

\* The same with a generator that runs when it is asked and a consumer that
\* keeps asking for the next frame; starting over is the consumer's choice.
FairSource ==
  /\ SpecSource
  /\ WF_vars(Request)
  /\ WF_vars(VideoRead)
  /\ WF_vars(VideoSeek)
  /\ WF_vars(CameraRead)
  /\ WF_vars(ImageNext)
  /\ WF_vars(DirNext)

\* ------------------------------------------------------------- properties
\* What the producer holds between the source's yield and the completed put.
Held == IF frame = 0 THEN <<>> ELSE <<frame>>

\* The consumer-facing iteration ended on its own, not by the consumer closing it.
EndedOnItsOwn == cpc \in {"finally", "done"} /\ ~cancelled

\* C1: in every state of an iteration the frames the consumer has received are
\* a prefix of the frames the inner source has yielded in the producer: nothing
\* is reordered, duplicated or skipped, whatever the interleaving.
C1_OrderPreserved == IsPrefix(received, produced)

\* C1 witness: the consumer has received two frames while the producer, running
\* ahead, has yielded more and frames are in flight in both stages of the queue.
C1_Witness ==
  /\ Len(received) >= 2
  /\ Len(produced) > Len(received)
  /\ pipe # <<>>
  /\ IsPrefix(received, produced)

C4_Terminates ==
  /\ [](EndedOnItsOwn => (~is_alive /\ pipe = <<>> /\ pending = <<>>))
  /\ [][(cpc = "while" /\ (is_alive \/ pipe # <<>>)) => cpc' # "finally"]_vars
  /\ (~streamer.endless => <>(cancelled \/ cpc = "done"))

\* C4 witness: an iteration over a source of at least two frames has terminated
\* on its own, the producer having been blocked on the full queue on the way.
C4_Witness ==
  /\ cpc = "done"
  /\ ~cancelled
  /\ ~streamer.endless
  /\ Len(received) >= 2
  /\ Len(received) > buffer_size

\* C5 as stated: on cancellation terminate is sent to the live producer, and
\* after the join a producer with no exit code is killed; the producer is
\* eventually not alive; nothing is delivered after the cancellation.
C5_KilledWhenNoExitCode ==
  /\ [][(~cancelled /\ cancelled' /\ is_alive) => sigterm']_vars
  /\ [][(cancelled /\ cpc = "finally" /\ cpc' = "done" /\ exitcode = "None")
          => sigkill']_vars
  /\ [][cancelled => received' = received]_vars
  /\ (cancelled ~> ~is_alive)

\* C5 amended: the same, with kill sent exactly when the running Python has
\* Process.kill (3.7 or later); on an older one only terminate is sent.
C5_Cancellation ==
  /\ [][(~cancelled /\ cancelled' /\ is_alive) => sigterm']_vars
  /\ [][(cancelled /\ cpc = "finally" /\ cpc' = "done" /\ exitcode = "None")
          => (sigkill' <=> py37)]_vars
  /\ [][cancelled => received' = received]_vars
  /\ (cancelled ~> ~is_alive)

\* C5 witness: the consumer closed the generator over an endless source while
\* the producer was blocked on the full queue, and the producer is dead by kill.
C5_Witness ==
  /\ cancelled
  /\ cpc = "done"
  /\ streamer.endless
  /\ ppc = "dead"
  /\ exitcode = "-9"
  /\ Len(produced) > Len(received) + buffer_size

\* C6: after the consumer's early exit, once the producer is terminated, no
\* capture handle of the wrapped source is open any more, the one opened at
\* construction included.
C6_NoHandleLeak ==
  (cancelled /\ cpc = "done" /\ ~is_alive) => (~cap_parent /\ ~cap_child)

\* No variant opens the locator and it is no integer camera index.
CompletelyInvalid ==
  /\ \A i \in 1..Len(Readers) : ~reader(Readers[i], input_path).ok
  /\ ~input_path.isint

\* The messages get_streamer is to print: the OpenError ones if there are any,
\* otherwise the InvalidInput ones.
MostSpecific == IF errors.OpenError # <<>> THEN errors.OpenError
                ELSE errors.InvalidInput

\* C7: for a completely invalid locator get_streamer prints the collected
\* messages to stderr and exits with a non-zero status, and ends no other way.
C7_ReportsFailure ==
  (spc = "done" /\ CompletelyInvalid) =>
     /\ outcome = "exit"
     /\ exit_status > 0
     /\ stderr # <<>>
     /\ stderr = MostSpecific

AttemptKinds == [i \in 1..Len(attempts) |-> attempts[i].kind]

\* C8: constructions are attempted in the order Image, Directory, Video, Camera,
\* each only after all before it raised InvalidInput or OpenError; what is
\* returned is the first that raised nothing; a locator that is an integer and
\* opens as no image, directory or video gets a Camera source; with threaded the
\* source comes wrapped in a ThreadedStreamer that reports the source's kind.
C8_SelectionOrder ==
  /\ IsPrefix(AttemptKinds, <<IMAGE, DIR, VIDEO, CAMERA>>)
  /\ \A i \in 1..(Len(attempts) - 1) :
        attempts[i].raised \in {"InvalidInput", "OpenError"}
  /\ outcome = "return" =>
        /\ attempts[Len(attempts)].raised = ""
        /\ get_type(result) = attempts[Len(attempts)].kind
        /\ result.wrapped = threaded
        /\ ~threaded => result.media_type = attempts[Len(attempts)].kind
  /\ spc = "done" =>
        \A k \in MediaType \ {CAMERA} :
           (reader(k, input_path).ok
              /\ \A j \in MediaType \ {CAMERA} : j < k => ~reader(j, input_path).ok)
           => (outcome = "return" /\ get_type(result) = k /\ Len(attempts) = k)
  /\ (spc = "done" /\ input_path.isint
        /\ \A k \in MediaType \ {CAMERA} : ~reader(k, input_path).ok)
       => (outcome = "return" /\ get_type(result) = CAMERA
             /\ AttemptKinds = <<IMAGE, DIR, VIDEO, CAMERA>>)
  /\ (spc = "done" /\ CAMERA \in {attempts[i].kind : i \in 1..Len(attempts)})
       => \A k \in MediaType \ {CAMERA} : ~reader(k, input_path).ok

\* C8 witness: a numeric locator that is no image, directory or video fell
\* through to Camera, and the Camera source came back wrapped.
C8_Witness ==
  /\ spc = "done"
  /\ input_path.isint
  /\ threaded
  /\ outcome = "return"
  /\ result.wrapped
  /\ get_type(result) = CAMERA
  /\ Len(attempts) = 4

\* C9: when get_streamer selects nothing, exactly the OpenError messages are
\* printed if any variant failed with OpenError, otherwise exactly the
\* InvalidInput messages; then the process exits.
C9_MostSpecificPrinted ==
  (spc = "done" /\ outcome # "return") =>
     /\ stderr = MostSpecific
     /\ outcome = "exit"

\* The locator does not exist or is not of the shape the variant reads.
WrongShape(kind, l) ==
  CASE kind = IMAGE -> ~l.isfile
    [] kind = DIR -> ~l.isdir
    [] kind = VIDEO -> ~l.isfile
    [] kind = CAMERA -> ~l.isint

\* The locator has the variant's shape and its content is invalid or empty.
BadContent(kind, l) ==
  CASE kind = IMAGE -> l.isfile /\ ~l.imread
    [] kind = DIR -> l.isdir /\ \A i \in 1..Len(l.names) : ~l.names[i]
    [] kind = VIDEO -> l.isfile /\ ~l.video
    [] kind = CAMERA -> l.isint /\ ~l.device

\* C10: every construction attempted on a locator that does not exist or has
\* the wrong shape raises InvalidInput, and on one of the right shape with
\* invalid or empty content raises OpenError; none succeeds.
C10_TypedFailure ==
  \A i \in 1..Len(attempts) :
     /\ WrongShape(attempts[i].kind, input_path)
          => attempts[i].raised = "InvalidInput"
     /\ BadContent(attempts[i].kind, input_path)
          => attempts[i].raised = "OpenError"

\* ------------------------------------------------------------- source properties
\* The frame a source yields for what it decoded: in RGB order.
Rgb(id) == [id |-> id, order |-> "RGB"]

\* The elements of a set of numbers in ascending order.
RECURSIVE Ascending(_)
Ascending(S) ==
  IF S = {} THEN <<>>
  ELSE LET m == CHOOSE x \in S : \A y \in S : x <= y
       IN <<m>> \o Ascending(S \ {m})

\* The element of S after x in ascending order, the smallest after the largest.
CyclicNext(x, S) ==
  IF \E y \in S : y > x
  THEN CHOOSE y \in S : y > x /\ \A z \in S : z > x => y <= z
  ELSE CHOOSE y \in S : \A z \in S : y <= z

\* The consumer has a generator over the instance and is asking, or the
\* generator is running.
Iterating == ipc \in {"start", "run", "seek"}

\* A step in which the generator yields a frame.
Yields == ipc = "run" /\ ipc' = "yield"

\* C11: for a video of n >= 1 frames, the k-th frame yielded (from 0) is frame
\* k mod n: without loop exactly frames 0..n-1 in order and then the end, with
\* loop round after round without end, no frame skipped or repeated.
C11_VideoFrames ==
  /\ []((media_type = VIDEO /\ n_frames >= 1 /\ iterations = 1) =>
          /\ \A k \in 1..Len(out) : out[k] = Rgb((k - 1) % n_frames)
          /\ ~self_loop => Len(out) <= n_frames
          /\ (~self_loop /\ ipc = "ended") => Len(out) = n_frames
          /\ self_loop => ipc # "ended")
  /\ [][(media_type = VIDEO /\ n_frames >= 1 /\ Yields)
          => last' = Rgb((last.id + 1) % n_frames)]_vars
  /\ ((media_type = VIDEO /\ n_frames >= 1 /\ self_loop /\ Iterating)
        ~> (ipc = "yield"))
  /\ ((media_type = VIDEO /\ n_frames >= 1 /\ ~self_loop /\ Iterating)
        ~> (ipc \in {"yield", "ended"}))

\* C11 witness: a looping 3-frame video has gone round past its end: frames
\* 0, 1, 2, 0, 1 were yielded.
C11_Witness ==
  /\ media_type = VIDEO
  /\ self_loop
  /\ n_frames = 3
  /\ iterations = 1
  /\ Len(out) >= 5
  /\ out[4] = Rgb(0)

\* C12: one iteration of a DirStreamer without loop yields exactly the entries
\* of the sorted listing that decode, each once, in sorted order; an entry
\* that does not decode is passed over, first and last entry included.
C12_DirSortedDecodable ==
  (media_type = DIR /\ ~self_loop /\ iterations = 1) =>
     /\ IsPrefix(out, [i \in 1..Cardinality(decodable) |->
                         Rgb(Ascending(decodable)[i])])
     /\ ipc = "ended" => Len(out) = Cardinality(decodable)

\* C12 witness: of three entries listed out of order the first and the last do
\* not decode; the iteration ended having yielded the middle one.
C12_Witness ==
  /\ media_type = DIR
  /\ ~self_loop
  /\ iterations = 1
  /\ ipc = "ended"
  /\ Len(names) = 3
  /\ listing # names
  /\ names[1] \notin decodable
  /\ names[3] \notin decodable
  /\ out = <<Rgb(names[2])>>

\* C13: at the end of the listing a DirStreamer with loop starts again from the
\* first entry: each frame yielded is the decodable entry after the one before
\* in sorted order, round after round, it never ends and every request for a
\* frame is answered with one; without loop every iteration ends.
C13_DirLoop ==
  /\ [][(media_type = DIR /\ Yields)
          => /\ last' = Rgb(CyclicNext(last.id, decodable))
             /\ ~self_loop => last'.id > last.id]_vars
  /\ []((media_type = DIR /\ self_loop) => ipc # "ended")
  /\ ((media_type = DIR /\ self_loop /\ Iterating) ~> (ipc = "yield"))
  /\ ((media_type = DIR /\ ~self_loop /\ Iterating) ~> (ipc = "ended"))

\* C13 witness: a looping directory with an entry that does not decode has been
\* gone through more than once.
C13_Witness ==
  /\ media_type = DIR
  /\ self_loop
  /\ decodable # Range(names)
  /\ Len(out) > Cardinality(decodable)
  /\ out[Cardinality(decodable) + 1] = out[1]

\* C14: an ImageStreamer without loop yields one frame per iteration and ends;
\* with loop it never ends and answers every request with a frame; every frame
\* yielded is the frame decoded (and converted) at construction.
C14_ImageFrames ==
  /\ [](media_type = IMAGE =>
          /\ \A k \in 1..Len(out) : out[k] = image /\ out[k] = Rgb(0)
          /\ ~self_loop => Len(out) <= 1
          /\ (~self_loop /\ ipc = "ended") => Len(out) = 1
          /\ self_loop => ipc # "ended")
  /\ ((media_type = IMAGE /\ self_loop /\ Iterating) ~> (ipc = "yield"))
  /\ ((media_type = IMAGE /\ ~self_loop /\ Iterating) ~> (ipc = "ended"))

\* C14 witness: a looping image has yielded its frame MaxOut times.
C14_Witness ==
  /\ media_type = IMAGE
  /\ self_loop
  /\ Len(out) = MaxOut
  /\ out[MaxOut] = out[1]

C16_ConsumableOnce ==
  (prior_exhausted /\ ~self_loop) => out = <<>>

\* C16 amended: that holds of Video, Camera and Directory instances; an
\* ImageStreamer without loop yields its one frame again on every iteration.
C16_SinglePassButImage ==
  /\ (prior_exhausted /\ ~self_loop /\ media_type # IMAGE) => out = <<>>
  /\ (prior_exhausted /\ ~self_loop /\ media_type = IMAGE /\ ipc = "ended")
       => out = <<image>>

\* C16 witness: a directory without loop was iterated to its end, and a second
\* iteration has ended too, with nothing yielded.
C16_Witness ==
  /\ media_type = DIR
  /\ ~self_loop
  /\ prior_exhausted
  /\ iterations = 2
  /\ ipc = "ended"
  /\ out = <<>>
  /\ last # NoFrame

\* C17: _process_run waits on a full buffer for a timeout only: a producer
\* blocked in put on a full buffer gets room or, that failing, leaves put and
\* exits.
C17_PutTimesOut ==
  (ppc = "put" /\ full) ~> (~full \/ ppc \in {"exit", "dead"})

\* C18: a VideoStreamer with loop, asked for the next frame, eventually yields
\* one: it does not go round reading and seeking for ever.
C18_LoopingVideoYields ==
  (media_type = VIDEO /\ self_loop /\ ipc = "run") ~> (ipc = "yield")

\* C19: in every state of a DirStreamer, over all its iterations, file_id is
\* within 0..len(names), an entry is only read at an index below len(names),
\* with loop file_id stays below len(names) and the iteration never ends, and
\* file_id is len(names) only without loop, and then stays.
C19_FileIdRange ==
  /\ [](media_type = DIR =>
          /\ 0 <= file_id /\ file_id <= Len(names)
          /\ -1 <= read_idx /\ read_idx < Len(names)
          /\ self_loop => (file_id < Len(names) /\ ipc # "ended")
          /\ file_id = Len(names) => ~self_loop
          /\ ipc = "ended" => file_id = Len(names))
  /\ [][(media_type = DIR /\ read_idx' # read_idx) => read_idx' = file_id]_vars
  /\ [][(media_type = DIR /\ file_id = Len(names)) => file_id' = file_id]_vars

\* C19 witness: a directory without loop was left in the middle of a first
\* iteration and finished in a second: file_id is len(names).
C19_Witness ==
  /\ media_type = DIR
  /\ ~self_loop
  /\ iterations = 2
  /\ ~prior_exhausted
  /\ Len(names) >= 2
  /\ file_id = Len(names)
  /\ read_idx = Len(names) - 1
  /\ ipc = "ended"

====
